---- MODULE Spec2Model ----
(***************************************************************************)
(* State-machine model of the launcher shell in src/main.cpp: the input    *)
(* repeat decoder and navigation state machine (HandleInput), the          *)
(* configuration store (SaveSettings / LoadSettings), the library scanner  *)
(* (ScanGames), the install workflow (InstallFiles / InstallFilesThread)   *)
(* and the launch handoff (StartGame).                                     *)
(***************************************************************************)
EXTENDS Integers, Sequences, FiniteSets, TLC

(***************************************************************************)
(* Bounds of the model (not program constants).                            *)
(***************************************************************************)
\* Ticks of the navigation specification stop once the clock passes this (ms).
MaxTime == 3200
\* Ticks of the hold specification stop once the clock passes this (ms).
MaxHoldTime == 650
\* Ticks of the install specification stop once the clock passes this (ms).
MaxInstallTime == 800
\* At most this many logical buttons are down in one tick of Spec.
MaxButtons == 2
\* At most this many background copy tasks are alive at once.
MaxThreads == 2
\* At most this many entries in the user search-path list.
MaxPaths == 2
\* Ticks of the launch specification stop once the clock passes this (ms).
MaxLaunchTime == 1600
\* Ticks of the save specification stop once the clock passes this (ms).
MaxSaveTime == 2400
\* Ticks of the edit specification stop once the clock passes this (ms).
MaxEditTime == 2400

(***************************************************************************)
(* Program constants.                                                      *)
(***************************************************************************)
InitialDelay == 400
RepeatDelay == 50
NumTabs == 5
NumLanguages == 18
NumRegions == 6

\* enum class SettingsTab { General, System, Graphics, Audio, Network }
General == 0
System == 1
Graphics == 2
Audio == 3
Network == 4

\* The logical buttons HandleInput reduces the controllers to, and their mask bits.
Buttons == {"up", "down", "lb", "rb", "a", "b", "start"}

Bit(btn) ==
    CASE btn = "up" -> 1
      [] btn = "down" -> 2
      [] btn = "lb" -> 4
      [] btn = "rb" -> 8
      [] btn = "a" -> 16
      [] btn = "b" -> 32
      [] btn = "start" -> 64

RECURSIVE SumBits(_)
SumBits(S) ==
    IF S = {} THEN 0
    ELSE LET b == CHOOSE x \in S : TRUE IN Bit(b) + SumBits(S \ {b})

\* WORD currentMask: the OR of the bits of the buttons that are down.
CurrentMask(pressed) == SumBits(pressed)

HasBit(mask, btn) == (mask \div Bit(btn)) % 2 = 1

(***************************************************************************)
(* The file system the scanner walks.  A directory is named by its index   *)
(* in PathName; the names are listed in std::filesystem::path order, so    *)
(* the order of the indices is the order std::sort puts the paths in.      *)
(***************************************************************************)
PathName == << "C:\\Roms", "D:\\Games", "D:\\Games\\sub", "E:\\Games" >>
Paths == 1..Len(PathName)
SystemPath == 2
DrivePaths == {4}
\* Inside(p, r): directory p is r or lies below r.
Inside(p, r) == p = r \/ (p = 3 /\ r = 2)

\* A regular file: the directory that holds it, its stem and its extension as
\* written.
File(d, n, e) == [dir |-> d, stem |-> n, ext |-> e, regular |-> TRUE]

\* A directory entry that is not a regular file (a folder named like a title).
Folder(d, n, e) == [dir |-> d, stem |-> n, ext |-> e, regular |-> FALSE]

\* A disk image: the directories that exist, and the entries in the order
\* recursive_directory_iterator meets them.
DiskA == [dirs |-> {2, 3, 4},
          files |-> << File(2, "a", ".nsp"), File(2, "b", ".NSP"),
                       File(2, "c", ".txt"), Folder(2, "pack", ".xci"),
                       File(3, "d", ".xci"), File(4, "e", ".XCI") >>]
DiskB == [dirs |-> {1, 2},
          files |-> << File(2, "a", ".nsp"), File(1, "r", ".xci") >>]
DiskC == [dirs |-> {2}, files |-> << >>]
DiskImages == {DiskA, DiskB, DiskC}

\* ::tolower applied to each character of an extension.
ToLower(ext) ==
    CASE ext = ".NSP" -> ".nsp"
      [] ext = ".XCI" -> ".xci"
      [] ext = ".Nsp" -> ".nsp"
      [] OTHER -> ext

RECURSIVE SelectFilesAsWritten(_, _)
\* SelectFiles with the extension compared as written, without ::tolower.
SelectFilesAsWritten(files, r) ==
    IF files = << >> THEN << >>
    ELSE LET f == Head(files)
             rest == SelectFilesAsWritten(Tail(files), r)
         IN IF Inside(f.dir, r) /\ f.regular /\ (f.ext = ".nsp" \/ f.ext = ".xci")
            THEN << f >> \o rest ELSE rest

RECURSIVE SelectFiles(_, _)
\* Lines 177-184: the regular files of `files` below root r with a recognised
\* extension, in order.
SelectFiles(files, r) ==
    IF files = << >> THEN << >>
    ELSE LET f == Head(files)
             ext == ToLower(f.ext)
             rest == SelectFiles(Tail(files), r)
         IN IF Inside(f.dir, r) /\ f.regular /\ (ext = ".nsp" \/ ext = ".xci")
            THEN << f >> \o rest ELSE rest

RECURSIVE AddUserPaths(_, _, _)
\* Lines 160-166: append each existing user path not yet in searchPaths.
AddUserPaths(searchPaths, userPaths, disk) ==
    IF userPaths = << >> THEN searchPaths
    ELSE LET p == Head(userPaths)
             found == \E i \in 1..Len(searchPaths) : searchPaths[i] = p
             next == IF p \in disk.dirs /\ ~found
                     THEN Append(searchPaths, p) ELSE searchPaths
         IN AddUserPaths(next, Tail(userPaths), disk)

RECURSIVE AddDrives(_, _, _)
\* Lines 169-172: append every existing drive root, in letter order.
AddDrives(searchPaths, drives, disk) ==
    IF drives = {} THEN searchPaths
    ELSE LET d == CHOOSE x \in drives : \A y \in drives : x <= y
             next == IF d \in disk.dirs THEN Append(searchPaths, d) ELSE searchPaths
         IN AddDrives(next, drives \ {d}, disk)

RECURSIVE WalkRoots(_, _)
\* Lines 174-187: walk each existing root and collect the recognised files.
WalkRoots(searchPaths, disk) ==
    IF searchPaths = << >> THEN << >>
    ELSE LET r == Head(searchPaths)
             here == IF r \in disk.dirs THEN SelectFiles(disk.files, r) ELSE << >>
         IN here \o WalkRoots(Tail(searchPaths), disk)

\* static void ScanGames(): the new g_Games for the user paths and the disk.
ScanGames(userPaths, disk) ==
    WalkRoots(AddDrives(AddUserPaths(<< SystemPath >>, userPaths, disk),
                        DrivePaths, disk), disk)

(***************************************************************************)
(* The configuration store.  A text is a sequence of characters; a line of *)
(* the file is a key, whether an '=' follows it, and the text after it.    *)
(***************************************************************************)
DigitChar == << "0", "1", "2", "3", "4", "5", "6", "7", "8", "9" >>

RECURSIVE Digits(_)
Digits(n) ==
    IF n < 10 THEN << DigitChar[n + 1] >>
    ELSE Digits(n \div 10) \o << DigitChar[(n % 10) + 1] >>

\* operator<<(int): decimal text, with a leading '-' for a negative number.
IntToText(n) == IF n < 0 THEN << "-" >> \o Digits(-n) ELSE Digits(n)

IsSpace(c) == c \in {" ", "\t", "\r", "\n"}
IsDigit(c) == \E i \in 1..10 : DigitChar[i] = c
DigitValue(c) == (CHOOSE i \in 1..10 : DigitChar[i] = c) - 1

RECURSIVE TrimLeft(_)
TrimLeft(s) == IF s # << >> /\ IsSpace(Head(s)) THEN TrimLeft(Tail(s)) ELSE s

RECURSIVE TrimRight(_)
TrimRight(s) ==
    IF s # << >> /\ IsSpace(s[Len(s)]) THEN TrimRight(SubSeq(s, 1, Len(s) - 1)) ELSE s

\* static std::wstring Trim(const std::wstring&)
Trim(s) == TrimRight(TrimLeft(s))

RECURSIVE ParseDigits(_, _)
ParseDigits(s, acc) ==
    IF s # << >> /\ IsDigit(Head(s))
    THEN ParseDigits(Tail(s), acc * 10 + DigitValue(Head(s)))
    ELSE acc

\* _wtoi: skip white space, an optional sign, then digits up to the first
\* character that is not one; 0 when there is no digit.
Wtoi(s) ==
    LET t == TrimLeft(s)
    IN IF t = << >> THEN 0
       ELSE IF Head(t) = "-" THEN 0 - ParseDigits(Tail(t), 0)
       ELSE IF Head(t) = "+" THEN ParseDigits(Tail(t), 0)
       ELSE ParseDigits(t, 0)

Line(k, e, v) == [key |-> k, eq |-> e, val |-> v]

RECURSIVE InsertSorted(_, _)
InsertSorted(s, x) ==
    IF s = << >> THEN << x >>
    ELSE IF x <= Head(s) THEN << x >> \o s
    ELSE << Head(s) >> \o InsertSorted(Tail(s), x)

RECURSIVE SortPaths(_)
\* std::sort(g_UserGamePaths.begin(), g_UserGamePaths.end())
SortPaths(s) == IF s = << >> THEN << >> ELSE InsertSorted(SortPaths(Tail(s)), Head(s))

RECURSIVE Unique(_)
\* erase(std::unique(...)): drop each element equal to the one before it.
Unique(s) ==
    IF Len(s) <= 1 THEN s
    ELSE IF s[1] = s[2] THEN Unique(Tail(s))
    ELSE << s[1] >> \o Unique(Tail(s))

RECURSIVE PathLines(_)
PathLines(paths) ==
    IF paths = << >> THEN << >>
    ELSE << Line("GamePath", TRUE, << PathName[Head(paths)] >>) >> \o PathLines(Tail(paths))

BoolInt(b) == IF b THEN 1 ELSE 0

\* ConfigLines with the Region line written from the language index.
ConfigLinesRegionFromLanguage(values, paths) ==
    << Line("[System]", FALSE, << >>),
       Line("Language", TRUE, IntToText(values.language_index)),
       Line("Region", TRUE, IntToText(values.language_index)),
       Line("CustomRTC", TRUE, IntToText(BoolInt(values.custom_rtc_enabled))),
       Line("MultiCore", TRUE, IntToText(BoolInt(values.use_multi_core))),
       Line("MemoryLayout", TRUE, IntToText(values.memory_layout_mode)),
       Line("", FALSE, << >>),
       Line("[Paths]", FALSE, << >>) >> \o PathLines(paths)

\* Lines 209-224: the lines SaveSettings writes for the values and the
\* (already sorted and deduplicated) path list.
ConfigLines(values, paths) ==
    << Line("[System]", FALSE, << >>),
       Line("Language", TRUE, IntToText(values.language_index)),
       Line("Region", TRUE, IntToText(values.region_index)),
       Line("CustomRTC", TRUE, IntToText(BoolInt(values.custom_rtc_enabled))),
       Line("MultiCore", TRUE, IntToText(BoolInt(values.use_multi_core))),
       Line("MemoryLayout", TRUE, IntToText(values.memory_layout_mode)),
       Line("", FALSE, << >>),
       Line("[Paths]", FALSE, << >>) >> \o PathLines(paths)

\* static void SaveSettings(): s is the record of globals; opened tells
\* whether the output stream could be opened.
SaveSettings(s, opened) ==
    LET call == [written |-> opened, values |-> s.values, paths |-> s.g_UserGamePaths]
        t == [s EXCEPT !.saveLog = Append(@, call)]
    IN IF ~opened THEN t
       ELSE LET paths == Unique(SortPaths(s.g_UserGamePaths))
            IN [t EXCEPT !.g_UserGamePaths = paths,
                         !.configFile = [exists |-> TRUE,
                                         lines |-> ConfigLines(s.values, paths)]]

PathOfName(name) == CHOOSE p \in Paths : PathName[p] = name

\* Setting<T>::SetValue: the value is stored as cast, with no range
\* validation.
SetValue(v) == v

\* Lines 237-253: one line of the file applied to (values, paths).
LoadLine(acc, line) ==
    IF (line.key = "" /\ ~line.eq) \/ line.key \in {"[System]", "[Paths]"} THEN acc
    ELSE IF ~line.eq THEN acc
    ELSE LET val == Trim(line.val)
             v == acc.values
         IN CASE line.key = "Language" ->
                   [acc EXCEPT !.values = [v EXCEPT !.language_index = SetValue(Wtoi(val))]]
              [] line.key = "Region" ->
                   [acc EXCEPT !.values = [v EXCEPT !.region_index = SetValue(Wtoi(val))]]
              [] line.key = "CustomRTC" ->
                   [acc EXCEPT !.values = [v EXCEPT !.custom_rtc_enabled = SetValue(Wtoi(val) # 0)]]
              [] line.key = "MultiCore" ->
                   [acc EXCEPT !.values = [v EXCEPT !.use_multi_core = SetValue(Wtoi(val) # 0)]]
              [] line.key = "MemoryLayout" ->
                   [acc EXCEPT !.values = [v EXCEPT !.memory_layout_mode = SetValue(Wtoi(val))]]
              [] line.key = "GamePath" ->
                   [acc EXCEPT !.paths = Append(@, PathOfName(val[1]))]
              [] OTHER -> acc

RECURSIVE LoadLines(_, _)
LoadLines(acc, lines) ==
    IF lines = << >> THEN acc ELSE LoadLines(LoadLine(acc, Head(lines)), Tail(lines))

\* static void LoadSettings(): file.exists tells whether config.ini could be
\* opened, file.lines are its lines.
LoadSettings(values, paths, file) ==
    IF ~file.exists THEN [values |-> values, paths |-> paths]
    ELSE LoadLines([values |-> values, paths |-> << >>], file.lines)

\* Settings::values as the engine constructs it.
DefaultValues ==
    [language_index |-> 1, region_index |-> 1, custom_rtc_enabled |-> FALSE,
     use_multi_core |-> TRUE, memory_layout_mode |-> 0]

NoFile == [exists |-> FALSE, lines |-> << >>]

\* The configuration files the process may find when it starts.
InitConfigFiles ==
    { NoFile,
      [exists |-> TRUE,
       lines |-> ConfigLines([language_index |-> 17, region_index |-> 0,
                              custom_rtc_enabled |-> TRUE, use_multi_core |-> FALSE,
                              memory_layout_mode |-> 1], << 4 >>)],
      [exists |-> TRUE,
       lines |-> << Line("Language", TRUE, << " ", "0" >>),
                    Line("# comment", FALSE, << >>),
                    Line("GamePath", TRUE, << PathName[2] >>),
                    Line("GamePath", TRUE, << PathName[1] >>) >>] }

(***************************************************************************)
(* State.                                                                  *)
(***************************************************************************)
VARIABLES
    g_IsEditingSetting,     \* bool
    g_AppState,             \* "GameList", "Settings" or "Running"
    g_CurrentTab,           \* General .. Network
    g_IsInstalling,         \* std::atomic<bool>
    g_InstallStatus,        \* std::wstring
    g_UserGamePaths,        \* sequence of directories
    g_Games,                \* sequence of files
    g_SelectedGameIndex,    \* int
    g_SelectedSettingIndex, \* int
    g_NextInputTime,        \* ULONGLONG, ms
    g_LastInputMask,        \* WORD
    values,                 \* Settings::values
    configFile,             \* config.ini
    threads,                \* the detached InstallFilesThread tasks that have not returned:
                            \* for each, the step it is at
    now,                    \* GetTickCount64() at the latest tick
    execute,                \* the local `execute` of the latest HandleInput call
    holdStart,              \* time of the tick at which the mask now held was first seen
                            \* (the latest tick, while no button is down)
    lastFire,               \* time of the latest executing tick since holdStart, -1 if none
    startArg,               \* index HandleInput passed to StartGame in the latest tick, -1 if none
    saveLog,                \* the SaveSettings calls of the latest main-thread step, in order:
                            \* whether the file opened, and the values and the path list
                            \* at the call
    launch,                 \* what the StartGame call of the latest tick met and did
    scanned,                \* the disk and the user paths of the latest ScanGames call
    justStarted,            \* no HandleInput call has been made since wWinMain's
                            \* LoadSettings and ScanGames
    alive                   \* the process has not posted WM_QUIT

vars ==
    << g_IsEditingSetting, g_AppState, g_CurrentTab, g_IsInstalling, g_InstallStatus,
       g_UserGamePaths, g_Games, g_SelectedGameIndex, g_SelectedSettingIndex,
       g_NextInputTime, g_LastInputMask, values, configFile, threads, now,
       execute, holdStart, lastFire, startArg, saveLog, launch, scanned,
       justStarted, alive >>

\* StartGame has not been called.
NoLaunch ==
    [world |-> [keys |-> TRUE, firmware |-> [exists |-> FALSE, exts |-> {}],
                engine |-> [throwAt |-> 0, load |-> "Success"]],
     called |-> FALSE, notice |-> "", options |-> FALSE, events |-> << >>]

\* The globals the handlers of one tick read and write, as one record.
Globals ==
    [g_IsEditingSetting |-> g_IsEditingSetting,
     g_AppState |-> g_AppState,
     g_CurrentTab |-> g_CurrentTab,
     g_IsInstalling |-> g_IsInstalling,
     g_UserGamePaths |-> g_UserGamePaths,
     g_Games |-> g_Games,
     g_SelectedGameIndex |-> g_SelectedGameIndex,
     g_SelectedSettingIndex |-> g_SelectedSettingIndex,
     values |-> values,
     configFile |-> configFile,
     threads |-> threads,
     startArg |-> -1,
     saveLog |-> << >>,
     launch |-> NoLaunch,
     scanned |-> scanned]

Commit(r) ==
    /\ g_IsEditingSetting' = r.g_IsEditingSetting
    /\ g_AppState' = r.g_AppState
    /\ g_CurrentTab' = r.g_CurrentTab
    /\ g_UserGamePaths' = r.g_UserGamePaths
    /\ g_Games' = r.g_Games
    /\ g_SelectedGameIndex' = r.g_SelectedGameIndex
    /\ g_SelectedSettingIndex' = r.g_SelectedSettingIndex
    /\ values' = r.values
    /\ configFile' = r.configFile
    /\ threads' = r.threads
    /\ startArg' = r.startArg
    /\ saveLog' = r.saveLog
    /\ launch' = r.launch
    /\ scanned' = r.scanned

(***************************************************************************)
(* Launch handoff.                                                         *)
(***************************************************************************)
\* The firmware content directory nand/system/Contents/registered: whether it
\* exists, and the extensions of its entries as written.
FirmwareDirs ==
    { [exists |-> FALSE, exts |-> {}],
      [exists |-> TRUE, exts |-> {}],
      [exists |-> TRUE, exts |-> {".txt", ".NCA"}],
      [exists |-> TRUE, exts |-> {".nca", ".txt"}] }

\* Lines 467-475.
HasFirmware(dir) == dir.exists /\ \E e \in dir.exts : e = ".nca"

\* The engine calls of lines 491-512, in program order.
EngineSteps ==
    << "Initialize", "SetContentProvider", "SetFilesystem", "Load",
       "GPU.Start", "OnGpuReady", "Run" >>

\* What the engine does in one launch: the call that throws (its position in
\* EngineSteps, 0 when none throws) and the status Load returns.
EngineOutcomes ==
    { [throwAt |-> k, load |-> "Success"] : k \in 0..Len(EngineSteps) }
        \cup { [throwAt |-> 0, load |-> "ErrorLoad"] }

EngineRuns == [throwAt |-> 0, load |-> "Success"]

World(k, f, e) == [keys |-> k, firmware |-> f, engine |-> e]

\* What one call of StartGame may meet: whether keys/prod.keys exists, the
\* firmware directory, and what the engine does.  The engine is only
\* consulted when both checks pass.
LaunchOutcomes ==
    { World(FALSE, f, EngineRuns) : f \in FirmwareDirs }
        \cup { World(TRUE, f, EngineRuns) : f \in { d \in FirmwareDirs : ~HasFirmware(d) } }
        \cup { World(TRUE, f, e) : f \in { d \in FirmwareDirs : HasFirmware(d) },
                                  e \in EngineOutcomes }

\* EngineLaunch without the return of lines 500-505: a Load result other
\* than Success is reported and the launch goes on.
EngineLaunchIgnoresLoadResult(t, base, e) ==
    LET made(k) == SubSeq(EngineSteps, 1, k)
        opts == [base EXCEPT !.options = TRUE]
    IN IF e.throwAt \in 1..6
       THEN [t EXCEPT !.launch = [opts EXCEPT !.events = made(e.throwAt), !.notice = "Crash"]]
       ELSE [t EXCEPT !.g_AppState = "Running",
                      !.launch = [opts EXCEPT
                          !.events = made(6) \o << "g_AppState = Running", "Run" >>,
                          !.notice = IF e.throwAt = 7 THEN "Crash"
                                     ELSE IF e.load # "Success" THEN "Boot Failed" ELSE ""]]

\* Lines 482-517: the engine part of StartGame.  The events are the engine
\* calls made, with the assignment of line 510 among them.
EngineLaunch(t, base, e) ==
    LET made(k) == SubSeq(EngineSteps, 1, k)
        opts == [base EXCEPT !.options = TRUE]
    IN IF e.throwAt \in 1..4
       THEN [t EXCEPT !.launch = [opts EXCEPT !.events = made(e.throwAt), !.notice = "Crash"]]
       ELSE IF e.load # "Success"
       THEN [t EXCEPT !.launch = [opts EXCEPT !.events = made(4), !.notice = "Boot Failed"]]
       ELSE IF e.throwAt \in 5..6
       THEN [t EXCEPT !.launch = [opts EXCEPT !.events = made(e.throwAt), !.notice = "Crash"]]
       ELSE [t EXCEPT !.g_AppState = "Running",
                      !.launch = [opts EXCEPT
                          !.events = made(6) \o << "g_AppState = Running", "Run" >>,
                          !.notice = IF e.throwAt = 7 THEN "Crash" ELSE ""]]

\* StartGame with the firmware check made before the key check.
StartGameFirmwareFirst(s, index, w) ==
    LET t == [s EXCEPT !.startArg = index]
        base == [world |-> w, called |-> TRUE, notice |-> "", options |-> FALSE,
                 events |-> << >>]
    IN IF ~HasFirmware(w.firmware)
       THEN [t EXCEPT !.launch = [base EXCEPT !.notice = "Firmware MISSING!"]]
       ELSE IF ~w.keys
       THEN [t EXCEPT !.launch = [base EXCEPT !.notice = "prod.keys MISSING!"]]
       ELSE EngineLaunch(t, base, w.engine)

\* static void StartGame(HWND, const Game&): index is the position in
\* g_Games of the entry HandleInput passes, w what the call meets.
StartGame(s, index, w) ==
    LET t == [s EXCEPT !.startArg = index]
        base == [world |-> w, called |-> TRUE, notice |-> "", options |-> FALSE,
                 events |-> << >>]
    IN IF ~w.keys
       THEN [t EXCEPT !.launch = [base EXCEPT !.notice = "prod.keys MISSING!"]]
       ELSE IF ~HasFirmware(w.firmware)
       THEN [t EXCEPT !.launch = [base EXCEPT !.notice = "Firmware MISSING!"]]
       ELSE EngineLaunch(t, base, w.engine)

(***************************************************************************)
(* Install workflow.                                                       *)
(***************************************************************************)
\* What the folder picker returns: nothing (the dialog failed or was
\* cancelled) or a directory.
PickResults == {0} \cup Paths

\* What the environment may answer during one tick: the folder picker's
\* result, whether config.ini can be opened for writing, the disk ScanGames
\* finds, and what a launch meets.
Env(picks, opens, disks, launches) ==
    [picks |-> picks, opens |-> opens, disks |-> disks, launches |-> launches]

AnyEnv == Env(PickResults, BOOLEAN, DiskImages, LaunchOutcomes)

\* static void InstallFiles(HWND, title, subPath): the set of states the
\* call may end in, over the answers of env.
InstallFiles(s, title, subPath, env) ==
    IF s.g_IsInstalling THEN {s}
    ELSE UNION { IF source = 0 THEN {s}
                 ELSE IF title = "Add Game Directory"
                 THEN { [saved EXCEPT !.g_Games = ScanGames(saved.g_UserGamePaths, disk),
                                      !.scanned = [disk |-> disk,
                                                   paths |-> saved.g_UserGamePaths]] :
                        saved \in { SaveSettings([s EXCEPT !.g_UserGamePaths = Append(@, source)],
                                                 opened) : opened \in env.opens },
                        disk \in env.disks }
                 ELSE { [s EXCEPT !.threads = Append(@, "start")] }
               : source \in env.picks }

(***************************************************************************)
(* Input repeat decoder and navigation state machine.                      *)
(***************************************************************************)
\* Decode with the repeat test written `>` instead of `>=`.
DecodeStrict(currentMask, lastMask, nextInputTime, currentTime) ==
    IF currentMask # 0 /\ currentMask # lastMask
    THEN [execute |-> TRUE, next |-> currentTime + InitialDelay]
    ELSE IF currentMask # 0 /\ currentTime > nextInputTime
    THEN [execute |-> TRUE, next |-> currentTime + RepeatDelay]
    ELSE [execute |-> FALSE, next |-> nextInputTime]

\* Lines 550-559: whether the tick executes, and the new g_NextInputTime.
Decode(currentMask, lastMask, nextInputTime, currentTime) ==
    IF currentMask # 0 /\ currentMask # lastMask
    THEN [execute |-> TRUE, next |-> currentTime + InitialDelay]
    ELSE IF currentMask # 0 /\ currentTime >= nextInputTime
    THEN [execute |-> TRUE, next |-> currentTime + RepeatDelay]
    ELSE [execute |-> FALSE, next |-> nextInputTime]

\* Lines 566-571.
LibraryMenu(s, start) ==
    IF start
    THEN [s EXCEPT !.g_AppState = "Settings", !.g_CurrentTab = General,
                   !.g_SelectedSettingIndex = 0]
    ELSE s

\* Lines 573-574.
LibraryMove(s, up, down) ==
    LET a == IF up /\ s.g_SelectedGameIndex > 0
             THEN [s EXCEPT !.g_SelectedGameIndex = @ - 1] ELSE s
    IN IF down /\ a.g_SelectedGameIndex < Len(a.g_Games) - 1
       THEN [a EXCEPT !.g_SelectedGameIndex = @ + 1] ELSE a

\* Lines 565-576: the GameList branch.
OnGameList(s, pressed, env) ==
    LET a == LibraryMenu(s, "start" \in pressed)
    IN IF a.g_Games = << >> THEN {a}
       ELSE LET b == LibraryMove(a, "up" \in pressed, "down" \in pressed)
            IN IF "a" \in pressed /\ b.g_SelectedGameIndex >= 0
               THEN { StartGame(b, b.g_SelectedGameIndex, o) : o \in env.launches }
               ELSE {b}

\* SettingsLeave without the SaveSettings call of line 581.
SettingsLeaveNoSave(s, pressed, env) ==
    IF "b" \in pressed \/ "start" \in pressed
    THEN { [s EXCEPT !.g_AppState = "GameList"] }
    ELSE {s}

\* Lines 579-583.
SettingsLeave(s, pressed, env) ==
    IF "b" \in pressed \/ "start" \in pressed
    THEN { SaveSettings([s EXCEPT !.g_AppState = "GameList"], opened) : opened \in env.opens }
    ELSE {s}

\* Lines 584-591.
SettingsTabs(s, lb, rb) ==
    LET a == IF lb
             THEN LET t == s.g_CurrentTab - 1
                  IN [s EXCEPT !.g_CurrentTab = IF t < 0 THEN NumTabs - 1 ELSE t,
                               !.g_SelectedSettingIndex = 0]
             ELSE s
    IN IF rb
       THEN LET t == a.g_CurrentTab + 1
            IN [a EXCEPT !.g_CurrentTab = IF t > NumTabs - 1 THEN 0 ELSE t,
                         !.g_SelectedSettingIndex = 0]
       ELSE a

\* Line 593.
RowLimit(tab) == IF tab = System THEN 8 ELSE IF tab = General THEN 5 ELSE 0

\* SettingsMove with the lower bound test written `< limit` instead of
\* `< limit - 1`.
SettingsMoveOffByOne(s, up, down) ==
    LET limit == RowLimit(s.g_CurrentTab)
        a == IF up /\ s.g_SelectedSettingIndex > 0
             THEN [s EXCEPT !.g_SelectedSettingIndex = @ - 1] ELSE s
    IN IF down /\ a.g_SelectedSettingIndex < limit
       THEN [a EXCEPT !.g_SelectedSettingIndex = @ + 1] ELSE a

\* Lines 593-595.
SettingsMove(s, up, down) ==
    LET limit == RowLimit(s.g_CurrentTab)
        a == IF up /\ s.g_SelectedSettingIndex > 0
             THEN [s EXCEPT !.g_SelectedSettingIndex = @ - 1] ELSE s
    IN IF down /\ a.g_SelectedSettingIndex < limit - 1
       THEN [a EXCEPT !.g_SelectedSettingIndex = @ + 1] ELSE a

\* Line 603: the rows of the System tab that Confirm puts into edit mode.
EditableRows == {0, 1, 4, 6, 7}

\* SettingsConfirm with the row test of line 603 left out.
SettingsConfirmAnyRow(s, a_btn, env) ==
    IF ~a_btn THEN {s}
    ELSE IF s.g_CurrentTab = General
    THEN CASE s.g_SelectedSettingIndex = 0 -> InstallFiles(s, "Select Keys Folder", "keys", env)
           [] s.g_SelectedSettingIndex = 1 ->
                InstallFiles(s, "Select Firmware Folder", "nand/system/Contents/registered", env)
           [] s.g_SelectedSettingIndex = 2 -> InstallFiles(s, "Add Game Directory", "", env)
           [] OTHER -> {s}
    ELSE IF s.g_CurrentTab = System
    THEN { [s EXCEPT !.g_IsEditingSetting = TRUE] }
    ELSE {s}

\* Lines 597-607.
SettingsConfirm(s, a_btn, env) ==
    IF ~a_btn THEN {s}
    ELSE IF s.g_CurrentTab = General
    THEN CASE s.g_SelectedSettingIndex = 0 -> InstallFiles(s, "Select Keys Folder", "keys", env)
           [] s.g_SelectedSettingIndex = 1 ->
                InstallFiles(s, "Select Firmware Folder", "nand/system/Contents/registered", env)
           [] s.g_SelectedSettingIndex = 2 -> InstallFiles(s, "Add Game Directory", "", env)
           [] OTHER -> {s}
    ELSE IF s.g_CurrentTab = System /\ s.g_SelectedSettingIndex \in EditableRows
    THEN { [s EXCEPT !.g_IsEditingSetting = TRUE] }
    ELSE {s}

\* a % b as C++ computes it: the quotient truncates toward zero.
CRem(a, b) == IF a >= 0 THEN a % b ELSE 0 - ((0 - a) % b)

\* EditValue with the language and region steps computed without the
\* remainder of lines 614 and 620.
EditValueNoWrap(s, pressed) ==
    IF pressed \cap {"up", "down", "lb", "rb"} = {} THEN s
    ELSE LET v == s.values
             step == IF "up" \in pressed THEN 1 ELSE -1
         IN CASE s.g_SelectedSettingIndex = 0 ->
                   [s EXCEPT !.values.language_index = v.language_index + step]
              [] s.g_SelectedSettingIndex = 1 ->
                   [s EXCEPT !.values.region_index = v.region_index + step]
              [] s.g_SelectedSettingIndex = 4 ->
                   [s EXCEPT !.values.custom_rtc_enabled = ~v.custom_rtc_enabled]
              [] s.g_SelectedSettingIndex = 6 ->
                   [s EXCEPT !.values.use_multi_core = ~v.use_multi_core]
              [] s.g_SelectedSettingIndex = 7 ->
                   [s EXCEPT !.values.memory_layout_mode =
                       IF v.memory_layout_mode = 0 THEN 1 ELSE 0]
              [] OTHER -> s

\* Lines 610-633: the value bound to the selected row steps or flips.
EditValue(s, pressed) ==
    IF pressed \cap {"up", "down", "lb", "rb"} = {} THEN s
    ELSE LET v == s.values
             step == IF "up" \in pressed THEN 1 ELSE -1
         IN CASE s.g_SelectedSettingIndex = 0 ->
                   [s EXCEPT !.values.language_index =
                       CRem(v.language_index + step + NumLanguages, NumLanguages)]
              [] s.g_SelectedSettingIndex = 1 ->
                   [s EXCEPT !.values.region_index =
                       CRem(v.region_index + step + NumRegions, NumRegions)]
              [] s.g_SelectedSettingIndex = 4 ->
                   [s EXCEPT !.values.custom_rtc_enabled = ~v.custom_rtc_enabled]
              [] s.g_SelectedSettingIndex = 6 ->
                   [s EXCEPT !.values.use_multi_core = ~v.use_multi_core]
              [] s.g_SelectedSettingIndex = 7 ->
                   [s EXCEPT !.values.memory_layout_mode =
                       IF v.memory_layout_mode = 0 THEN 1 ELSE 0]
              [] OTHER -> s

\* An edit branch without the test of line 610: the switch on the row runs on
\* every executing tick, stepping down when MoveUp is not held.
OnEditingUnguarded(s, pressed) ==
    LET a == IF "b" \in pressed \/ "a" \in pressed
             THEN [s EXCEPT !.g_IsEditingSetting = FALSE] ELSE s
    IN EditValue(a, pressed \cup {"down"})

\* Lines 608-634: the Settings branch in edit mode.
OnEditing(s, pressed) ==
    LET a == IF "b" \in pressed \/ "a" \in pressed
             THEN [s EXCEPT !.g_IsEditingSetting = FALSE] ELSE s
    IN EditValue(a, pressed)

\* Lines 578-607: the Settings branch outside edit mode.
OnSettings(s, pressed, env) ==
    UNION { SettingsConfirm(
                SettingsMove(SettingsTabs(left, "lb" \in pressed, "rb" \in pressed),
                             "up" \in pressed, "down" \in pressed),
                "a" \in pressed, env)
            : left \in SettingsLeave(s, pressed, env) }

\* A HandleInput whose screen test has no third case: every screen that is not
\* Settings is handled as the game list.
NavigateRunningAsLibrary(s, any_connected, pressed, env) ==
    IF ~any_connected THEN {s}
    ELSE IF s.g_AppState = "Settings"
    THEN IF ~s.g_IsEditingSetting THEN OnSettings(s, pressed, env) ELSE { OnEditing(s, pressed) }
    ELSE OnGameList(s, pressed, env)

\* Lines 564-636: the states an executing tick may end in.
Navigate(s, any_connected, pressed, env) ==
    IF ~any_connected THEN {s}
    ELSE IF s.g_AppState = "GameList" THEN OnGameList(s, pressed, env)
    ELSE IF s.g_AppState = "Settings"
    THEN IF ~s.g_IsEditingSetting THEN OnSettings(s, pressed, env) ELSE { OnEditing(s, pressed) }
    ELSE {s}

\* static void HandleInput(HWND): one poll of the controllers, at currentTime.
HandleInput(any_connected, pressed, currentTime, env) ==
    LET currentMask == CurrentMask(pressed)
        d == Decode(currentMask, g_LastInputMask, g_NextInputTime, currentTime)
    IN /\ g_NextInputTime' = d.next
       /\ g_LastInputMask' = currentMask
       /\ execute' = d.execute
       /\ holdStart' = IF currentMask = 0 \/ currentMask # g_LastInputMask
                       THEN currentTime ELSE holdStart
       /\ lastFire' = IF d.execute THEN currentTime
                      ELSE IF currentMask = 0 THEN -1 ELSE lastFire
       /\ \E r \in (IF d.execute THEN Navigate(Globals, any_connected, pressed, env)
                     ELSE {Globals}) :
             /\ Len(r.threads) <= MaxThreads
             /\ Len(r.g_UserGamePaths) <= MaxPaths
             /\ Commit(r)
       /\ justStarted' = FALSE
       /\ UNCHANGED << g_IsInstalling, g_InstallStatus, alive >>

\* The button sets a tick of the navigation specification may carry.
Inputs == { S \in SUBSET Buttons : Cardinality(S) <= MaxButtons }

\* The time between two polls of the navigation specification (ms).
TickSteps == {400}

\* The main loop's idle branch (lines 700-702): one HandleInput call, dt ms
\* after the one before, with the buttons of `pressed` down.
Poll(inputs, steps, limit, env) ==
    \E pressed \in inputs, dt \in steps, any_connected \in BOOLEAN :
        /\ alive
        /\ pressed # {} => any_connected
        /\ now + dt <= limit
        /\ now' = now + dt
        /\ HandleInput(any_connected, pressed, now', env)

\* In the navigation specification the folder picker is cancelled whenever
\* it is shown and config.ini can always be written.
NavEnv == Env({0}, {TRUE}, DiskImages, LaunchOutcomes)
Tick == Poll(Inputs, TickSteps, MaxTime, NavEnv)

\* The button sets and poll intervals of the hold specification: one button
\* pressed, held and released, polled every 25 or 50 ms.
HoldInputs == { {}, {"up"}, {"down"}, {"start"} }
HoldSteps == {25, 50}
HoldTick == Poll(HoldInputs, HoldSteps, MaxHoldTime, AnyEnv)

\* The button sets and poll intervals of the install specification.
InstallInputs == { {}, {"start"}, {"a"}, {"down"} }
InstallSteps == {100}
\* In the install specification a launch either finds no key file or runs.
InstallEnv ==
    Env(PickResults, BOOLEAN, DiskImages,
        { w \in LaunchOutcomes : w.engine = EngineRuns /\ (~w.keys <=> ~w.firmware.exists)
                                  /\ (w.keys <=> HasFirmware(w.firmware)) })
InstallTick == Poll(InstallInputs, InstallSteps, MaxInstallTime, InstallEnv)

\* The button sets and poll intervals of the launch specification: Confirm
\* alone and together with a move or Menu, with every outcome of a launch.
LaunchInputs ==
    { {}, {"a"}, {"up"}, {"down"}, {"start"},
      {"a", "up"}, {"a", "down"}, {"a", "start"} }
LaunchSteps == {400}
LaunchEnv == Env({0}, {TRUE}, {DiskA}, LaunchOutcomes)
LaunchTick == Poll(LaunchInputs, LaunchSteps, MaxLaunchTime, LaunchEnv)

(***************************************************************************)
(* The background copy task, one action per step of InstallFilesThread.    *)
(***************************************************************************)
UNCHANGED_MAIN ==
    UNCHANGED << g_IsEditingSetting, g_AppState, g_CurrentTab, g_UserGamePaths, g_Games,
                 g_SelectedGameIndex, g_SelectedSettingIndex, g_NextInputTime,
                 g_LastInputMask, values, configFile, now, execute, holdStart,
                 lastFire, startArg, saveLog, launch, scanned, justStarted, alive >>

Remove(seq, i) == SubSeq(seq, 1, i - 1) \o SubSeq(seq, i + 1, Len(seq))

\* Line 259.
ThreadSetFlag ==
    \E i \in 1..Len(threads) :
        /\ alive
        /\ threads[i] = "start"
        /\ g_IsInstalling' = TRUE
        /\ threads' = [threads EXCEPT ![i] = "status"]
        /\ UNCHANGED g_InstallStatus
        /\ UNCHANGED_MAIN

\* Line 260.
ThreadSetStatus ==
    \E i \in 1..Len(threads) :
        /\ alive
        /\ threads[i] = "status"
        /\ g_InstallStatus' = "Copying files..."
        /\ threads' = [threads EXCEPT ![i] = "copy"]
        /\ UNCHANGED g_IsInstalling
        /\ UNCHANGED_MAIN

\* Lines 262-273 up to the notice: the copy succeeds or throws.
ThreadCopy ==
    \E i \in 1..Len(threads), ok \in BOOLEAN :
        /\ alive
        /\ threads[i] = "copy"
        /\ g_InstallStatus' = IF ok THEN "Done!" ELSE "Error!"
        /\ threads' = [threads EXCEPT ![i] = "notice"]
        /\ UNCHANGED g_IsInstalling
        /\ UNCHANGED_MAIN

\* Lines 267 / 272 return (the notice is dismissed), then lines 274-276.
ThreadFinish ==
    \E i \in 1..Len(threads) :
        /\ alive
        /\ threads[i] = "notice"
        /\ g_IsInstalling' = FALSE
        /\ threads' = Remove(threads, i)
        /\ UNCHANGED g_InstallStatus
        /\ UNCHANGED_MAIN

(***************************************************************************)
(* Specifications.                                                         *)
(***************************************************************************)
\* The globals as initialised (lines 69-79), then LoadSettings and ScanGames
\* (lines 692-693).
Start(files, disks) ==
    \E file \in files, disk \in disks :
        LET loaded == LoadSettings(DefaultValues, << >>, file)
        IN /\ g_IsEditingSetting = FALSE
           /\ g_AppState = "GameList"
           /\ g_CurrentTab = General
           /\ g_IsInstalling = FALSE
           /\ g_InstallStatus = ""
           /\ g_UserGamePaths = loaded.paths
           /\ g_Games = ScanGames(loaded.paths, disk)
           /\ g_SelectedGameIndex = 0
           /\ g_SelectedSettingIndex = 0
           /\ g_NextInputTime = 0
           /\ g_LastInputMask = 0
           /\ values = loaded.values
           /\ configFile = file
           /\ threads = << >>
           /\ now = 0
           /\ execute = FALSE
           /\ holdStart = 0
           /\ lastFire = -1
           /\ startArg = -1
           /\ saveLog = << >>
           /\ launch = NoLaunch
           /\ scanned = [disk |-> disk, paths |-> loaded.paths]
           /\ justStarted = TRUE
           /\ alive = TRUE

Init == Start(InitConfigFiles, DiskImages)

\* Navigation: every combination of up to MaxButtons buttons, polled slowly,
\* started without a configuration file on the disk DiskC.
NavInit == Start({NoFile}, {DiskC})

Next == Tick

Spec == NavInit /\ [][Next]_vars

\* Auto-repeat: one button held, polled quickly.
HoldNext == HoldTick

SpecHold == Init /\ [][HoldNext]_vars

\* Install workflow: the main thread interleaved with the background tasks.
InstallNext == InstallTick \/ ThreadSetFlag \/ ThreadSetStatus \/ ThreadCopy \/ ThreadFinish

SpecInstall == Init /\ [][InstallNext]_vars

\* Launch handoff: a library of four titles, started without a
\* configuration file.
LaunchInit == Start({NoFile}, {DiskA})

LaunchNext == LaunchTick

SpecLaunch == LaunchInit /\ [][LaunchNext]_vars

(***************************************************************************)
(* The configuration store and the scanner over the life of the process:   *)
(* the library path row, the window's destruction and the next start.      *)
(***************************************************************************)
\* The setting values edit mode can produce: Language 0..17, Region 0..5,
\* the two flags, and the two memory layouts of line 628.
InRangeValues ==
    [language_index : 0..(NumLanguages - 1), region_index : 0..(NumRegions - 1),
     custom_rtc_enabled : BOOLEAN, use_multi_core : BOOLEAN,
     memory_layout_mode : {0, 1}]

\* The search-path lists of up to MaxPaths entries, in any order, with
\* repetitions.
PathLists == UNION { [1..n -> Paths] : n \in 0..MaxPaths }

\* A configuration file edited by hand: values outside the ranges, a key
\* the program does not know, and the same search path twice.
HandWrittenFile ==
    [exists |-> TRUE,
     lines |-> << Line("[System]", FALSE, << >>),
                  Line("Language", TRUE, << "-", "5" >>),
                  Line("Region", TRUE, << "9", "9" >>),
                  Line("Volume", TRUE, << "3" >>),
                  Line("MemoryLayout", TRUE, << "1", "x" >>),
                  Line("GamePath", TRUE, << PathName[4] >>),
                  Line("GamePath", TRUE, << PathName[4] >>) >>]

StoreFiles == {NoFile, HandWrittenFile}

\* The process at work: the values as edit mode left them, the search paths
\* as loads and additions left them, the library as the latest scan found
\* it, and whatever configuration file the disk holds.
StoreStart(files, disks, vs, lists) ==
    \E file \in files, disk \in disks, v \in vs, paths \in lists :
        /\ g_IsEditingSetting = FALSE
        /\ g_AppState = "Settings"
        /\ g_CurrentTab = General
        /\ g_IsInstalling = FALSE
        /\ g_InstallStatus = ""
        /\ g_UserGamePaths = paths
        /\ g_Games = ScanGames(paths, disk)
        /\ g_SelectedGameIndex = 0
        /\ g_SelectedSettingIndex = 2
        /\ g_NextInputTime = 0
        /\ g_LastInputMask = 0
        /\ values = v
        /\ configFile = file
        /\ threads = << >>
        /\ now = 0
        /\ execute = FALSE
        /\ holdStart = 0
        /\ lastFire = -1
        /\ startArg = -1
        /\ saveLog = << >>
        /\ launch = NoLaunch
        /\ scanned = [disk |-> disk, paths |-> paths]
        /\ justStarted = FALSE
        /\ alive = TRUE

\* Two settings of the five values, each differing from the other in every
\* value.
CornerValues ==
    { DefaultValues,
      [language_index |-> NumLanguages - 1, region_index |-> NumRegions - 1,
       custom_rtc_enabled |-> TRUE, use_multi_core |-> FALSE, memory_layout_mode |-> 1] }

StoreInit == StoreStart(StoreFiles, DiskImages, CornerValues, PathLists)

\* Lines 598-601 with row 2 of the General tab selected: Confirm calls
\* InstallFiles for "Add Game Directory".
AddGameDirectory ==
    /\ alive
    /\ g_AppState = "Settings" /\ ~g_IsEditingSetting
    /\ g_CurrentTab = General /\ g_SelectedSettingIndex = 2
    /\ \E r \in SettingsConfirm(Globals, TRUE, AnyEnv) :
          /\ Len(r.g_UserGamePaths) <= MaxPaths
          /\ Commit(r)
    /\ justStarted' = FALSE
    /\ UNCHANGED << g_IsInstalling, g_InstallStatus, g_NextInputTime, g_LastInputMask,
                    now, execute, holdStart, lastFire, alive >>

\* WindowProc, WM_DESTROY (lines 654-657): SaveSettings, then WM_QUIT ends
\* the main loop.
WindowDestroy ==
    /\ alive
    /\ \E opened \in BOOLEAN : Commit(SaveSettings(Globals, opened))
    /\ alive' = FALSE
    /\ UNCHANGED << g_IsInstalling, g_InstallStatus, g_NextInputTime, g_LastInputMask,
                    now, execute, holdStart, lastFire, justStarted >>

\* wWinMain up to the main loop (lines 662-693) in a new process: the
\* globals as initialised, then LoadSettings and ScanGames.  The process
\* before it ended at WM_QUIT or was terminated.
ProcessStartOn(disks) ==
    \E disk \in disks :
        LET loaded == LoadSettings(DefaultValues, << >>, configFile)
        IN /\ g_IsEditingSetting' = FALSE
           /\ g_AppState' = "GameList"
           /\ g_CurrentTab' = General
           /\ g_IsInstalling' = FALSE
           /\ g_InstallStatus' = ""
           /\ g_UserGamePaths' = loaded.paths
           /\ g_Games' = ScanGames(loaded.paths, disk)
           /\ g_SelectedGameIndex' = 0
           /\ g_SelectedSettingIndex' = 0
           /\ g_NextInputTime' = 0
           /\ g_LastInputMask' = 0
           /\ values' = loaded.values
           /\ threads' = << >>
           /\ execute' = FALSE
           /\ holdStart' = now
           /\ lastFire' = -1
           /\ startArg' = -1
           /\ saveLog' = << >>
           /\ launch' = NoLaunch
           /\ scanned' = [disk |-> disk, paths |-> loaded.paths]
           /\ justStarted' = TRUE
           /\ alive' = TRUE
           /\ UNCHANGED << configFile, now >>

\* A library path is added on the Settings screen a moment after the process
\* has started: Menu, MoveDown, MoveDown.
OpenLibraryPathRow ==
    /\ alive /\ justStarted
    /\ g_AppState' = "Settings"
    /\ g_CurrentTab' = General
    /\ g_SelectedSettingIndex' = 2
    /\ justStarted' = FALSE
    /\ UNCHANGED << g_IsEditingSetting, g_IsInstalling, g_InstallStatus, g_UserGamePaths,
                    g_Games, g_SelectedGameIndex, g_NextInputTime, g_LastInputMask, values,
                    configFile, threads, now, execute, holdStart, lastFire, startArg,
                    saveLog, launch, scanned, alive >>

ProcessStart == ProcessStartOn(DiskImages)

StoreNext == AddGameDirectory \/ WindowDestroy \/ ProcessStart \/ OpenLibraryPathRow

SpecStore == StoreInit /\ [][StoreNext]_vars

\* Save at the window's destruction and load at the next start, for every
\* combination of in-range values and every search-path list.
RoundTripInit == StoreStart({NoFile}, {DiskC}, InRangeValues, PathLists)

Restart == ProcessStartOn({DiskC})

RoundTripNext == WindowDestroy \/ Restart

SpecRoundTrip == RoundTripInit /\ [][RoundTripNext]_vars

\* Saving: navigation through the Settings screen with a folder picker that
\* is cancelled or returns E:\Games and a configuration file that may fail
\* to open, up to the destruction of the window.
SaveInputs ==
    { {}, {"start"}, {"b"}, {"a"}, {"up"}, {"down"}, {"rb"}, {"a", "b"} }
SaveSteps == {400}
SaveEnv == Env({0, 4}, BOOLEAN, {DiskC}, LaunchOutcomes)
SaveTick == Poll(SaveInputs, SaveSteps, MaxSaveTime, SaveEnv)

SaveNext == SaveTick \/ WindowDestroy

SpecSave == NavInit /\ [][SaveNext]_vars

\* Edit mode under held buttons: one button or Confirm with Back per tick,
\* polled every 200 or 400 ms, so that a held mask meets polls before and at
\* its armed time.
EditInputs ==
    { {}, {"start"}, {"rb"}, {"a"}, {"up"}, {"down"}, {"a", "b"} }
EditSteps == {200, 400}
EditTick == Poll(EditInputs, EditSteps, MaxEditTime, NavEnv)

EditNext == EditTick

SpecEdit == NavInit /\ [][EditNext]_vars

(***************************************************************************)
(* Properties.                                                             *)
(***************************************************************************)
\* The latest tick carried the same non-zero mask as the tick before it.
HeldStep == g_LastInputMask' # 0 /\ g_LastInputMask' = g_LastInputMask

\* C1: while one non-zero mask is held from time t0 (holdStart), the tick at
\* t0 executes, no later tick before t0 + 400 ms does, the first tick at or
\* after t0 + 400 ms does, every executing tick after that comes at least
\* 50 ms after the executing tick before it, and no tick with mask zero
\* executes.
C1_RepeatTiming ==
    [][ /\ (g_LastInputMask' # 0 /\ g_LastInputMask' # g_LastInputMask) => execute'
        /\ (HeldStep /\ now' < holdStart + 400) => ~execute'
        /\ (HeldStep /\ now' >= holdStart + 400 /\ now < holdStart + 400) => execute'
        /\ (HeldStep /\ execute') => now' >= lastFire + 50
        /\ g_LastInputMask' = 0 => ~execute' ]_vars

\* A held mask has executed at t0, at the first tick from t0 + 400 ms on and
\* once more after that.
C1_Witness ==
    /\ execute
    /\ g_LastInputMask # 0
    /\ lastFire = now
    /\ now >= holdStart + 450

\* The buttons the specification calls single-shot.
SingleShot == {"lb", "rb", "a", "b", "start"}

\* C2: a tick that carries a single-shot button (Confirm, Back, Menu,
\* TabPrev, TabNext) with the mask unchanged from the tick before applies no
\* intent, however long the button has been held.
C2_SingleShotNotRepeated ==
    [][ (HeldStep /\ \E btn \in SingleShot : HasBit(g_LastInputMask', btn)) => ~execute' ]_vars

\* C3: whenever the game list is not empty the selected library index is a
\* position of the list, and the index HandleInput passes to StartGame is one.
C3_LibraryIndexInRange ==
    /\ g_Games # << >> =>
          (0 <= g_SelectedGameIndex /\ g_SelectedGameIndex <= Len(g_Games) - 1)
    /\ startArg # -1 => (0 <= startArg /\ startArg <= Len(g_Games) - 1)

C5_EditingImpliesSettings == g_IsEditingSetting => g_AppState = "Settings"

\* C6: edit mode is on only on the System tab with an editable value row
\* selected.
C6_EditingOnEditableRow ==
    g_IsEditingSetting =>
        (g_CurrentTab = System /\ g_SelectedSettingIndex \in {0, 1, 4, 6, 7})

\* C7: a tick that turns edit mode on executes with Confirm down, starts on
\* the Settings screen and ends on the System tab with one of the rows
\* 0, 1, 4, 6, 7 selected (Confirm is the last intent applied, so the tab
\* and the row it sees are those the tick ends with).
C7_EditingEntry ==
    [][ (~g_IsEditingSetting /\ g_IsEditingSetting') =>
            /\ execute'
            /\ HasBit(g_LastInputMask', "a")
            /\ g_AppState = "Settings"
            /\ g_CurrentTab' = System
            /\ g_SelectedSettingIndex' \in {0, 1, 4, 6, 7} ]_vars

\* Confirm has just turned edit mode on for System row 4 (a tick with
\* Confirm that started in edit mode would have left it).
C7_Witness ==
    /\ g_IsEditingSetting
    /\ execute
    /\ HasBit(g_LastInputMask, "a")
    /\ g_AppState = "Settings"
    /\ g_CurrentTab = System
    /\ g_SelectedSettingIndex = 4

\* C8: a tick that changes the settings tab ends with row 0 selected and
\* edit mode off.
C8_TabChangeResets ==
    [][ g_CurrentTab' # g_CurrentTab =>
            (g_SelectedSettingIndex' = 0 /\ ~g_IsEditingSetting') ]_vars

\* C9: a tick that changes the screen between Library and Settings ends with
\* row 0 selected and edit mode off, and on the General tab when it entered
\* Settings.
C9_ScreenChangeResets ==
    [][ (g_AppState' # g_AppState /\ g_AppState' \in {"GameList", "Settings"}) =>
            /\ g_SelectedSettingIndex' = 0
            /\ ~g_IsEditingSetting'
            /\ (g_AppState' = "Settings" => g_CurrentTab' = General) ]_vars

\* C10: at most one background copy task exists at any time.
C10_AtMostOneCopyTask == Len(threads) <= 1

\* The elements of a sequence.
Range(q) == { q[i] : i \in 1..Len(q) }

\* q is in strictly increasing order: sorted, with no element twice.
StrictlySorted(q) == \A i \in 1..(Len(q) - 1) : q[i] < q[i + 1]

\* C11: when the process starts right after a SaveSettings call that wrote
\* the file, LoadSettings (into the default values and an empty list) yields
\* the five values as they were at the save, and a search-path list that is
\* strictly sorted and holds exactly the paths of the list at the save.
C11_RoundTrip ==
    [][ (/\ saveLog # << >>
         /\ saveLog[Len(saveLog)].written
         /\ justStarted'
         /\ saveLog' = << >>) =>
            LET call == saveLog[Len(saveLog)]
            IN /\ values' = call.values
               /\ StrictlySorted(g_UserGamePaths')
               /\ Range(g_UserGamePaths') = Range(call.paths) ]_vars

\* The process has started from a file the save at the window's destruction
\* wrote: every value differs from its default and two paths came back.
C11_Witness ==
    /\ justStarted
    /\ configFile.exists
    /\ values.language_index = 17
    /\ values.region_index = 0
    /\ values.custom_rtc_enabled
    /\ ~values.use_multi_core
    /\ values.memory_layout_mode = 1
    /\ g_UserGamePaths = << 1, 4 >>

\* The number of GamePath lines of the configuration file that name path p.
GamePathLineCount(p) ==
    Cardinality({ i \in 1..Len(configFile.lines) :
                    /\ configFile.lines[i].key = "GamePath"
                    /\ configFile.lines[i].val = << PathName[p] >> })

\* C12: after a step that called SaveSettings, the search-path list in
\* memory is sorted and holds no path twice, and the configuration file
\* holds one GamePath line for each path of the list and none for any other.
C12_SavedPathsSortedUnique ==
    saveLog # << >> =>
        /\ StrictlySorted(g_UserGamePaths)
        /\ configFile.exists
        /\ \A p \in Paths :
              GamePathLineCount(p) = IF p \in Range(g_UserGamePaths) THEN 1 ELSE 0

\* The latest tick executed with MoveUp, MoveDown, TabPrev or TabNext down.
StepIntent ==
    /\ execute'
    /\ \E btn \in {"up", "down", "lb", "rb"} : HasBit(g_LastInputMask', btn)

C14_IndicesInRange ==
    /\ values.language_index \in 0..(NumLanguages - 1)
    /\ values.region_index \in 0..(NumRegions - 1)

\* C15: a StartGame call that finds no key file (whatever the firmware
\* directory holds) shows the missing-keys notice, and one that finds the
\* key file but a firmware directory that is missing, empty or without an
\* entry of extension .nca shows the missing-firmware notice; in both cases
\* it makes no engine call and sets no engine option, the tick changes no
\* setting value and does not end on the Running screen, and a tick that
\* carried Confirm alone leaves screen, tab, row, edit mode and library
\* index as they were.
C15_LaunchBlocked ==
    [][ LET w == launch'.world
            noKeys == launch'.called /\ ~w.keys
            noFirmware == /\ launch'.called /\ w.keys
                          /\ (~w.firmware.exists \/ ".nca" \notin w.firmware.exts)
        IN /\ noKeys => launch'.notice = "prod.keys MISSING!"
           /\ noFirmware => launch'.notice = "Firmware MISSING!"
           /\ (noKeys \/ noFirmware) =>
                 /\ launch'.events = << >>
                 /\ ~launch'.options
                 /\ values' = values
                 /\ g_AppState' # "Running"
                 /\ g_LastInputMask' = Bit("a") =>
                       /\ g_AppState' = g_AppState
                       /\ g_CurrentTab' = g_CurrentTab
                       /\ g_SelectedSettingIndex' = g_SelectedSettingIndex
                       /\ g_IsEditingSetting' = g_IsEditingSetting
                       /\ g_SelectedGameIndex' = g_SelectedGameIndex ]_vars

\* Confirm on the Library screen has called StartGame with neither the key
\* file nor the firmware directory present: the notice is the one for keys.
C15_Witness ==
    /\ launch.called
    /\ ~launch.world.keys
    /\ ~launch.world.firmware.exists
    /\ launch.notice = "prod.keys MISSING!"
    /\ g_AppState = "GameList"

RECURSIVE Flatten(_)
\* The concatenation of a sequence of sequences.
Flatten(qs) == IF qs = << >> THEN << >> ELSE Head(qs) \o Flatten(Tail(qs))

\* The extensions that read .nsp or .xci when case is ignored.
TitleExtensions ==
    { ".nsp", ".NSP", ".Nsp", ".nSp", ".nsP", ".NSp", ".NsP", ".nSP",
      ".xci", ".XCI", ".Xci", ".xCi", ".xcI", ".XCi", ".XcI", ".xCI" }

\* The roots of the latest scan, in the order they are walked: the system
\* path, the existing user paths at their first mention, the existing drive
\* roots in letter order.
ScanRoots ==
    LET u == scanned.paths
        dirs == scanned.disk.dirs
        FirstMention(i) == /\ u[i] \in dirs /\ u[i] # SystemPath
                           /\ \A j \in 1..(i - 1) : u[j] # u[i]
        userAt == SelectSeq([i \in 1..Len(u) |-> i], FirstMention)
        IsDrive(p) == p \in DrivePaths /\ p \in dirs
        drives == SelectSeq([p \in 1..Len(PathName) |-> p], IsDrive)
    IN << SystemPath >> \o [k \in 1..Len(userAt) |-> u[userAt[k]]] \o drives

\* The titles below root r on the disk of the latest scan, in disk order.
TitlesBelow(r) ==
    LET IsTitle(f) == /\ f.regular /\ f.ext \in TitleExtensions /\ Inside(f.dir, r)
    IN IF r \in scanned.disk.dirs THEN SelectSeq(scanned.disk.files, IsTitle) ELSE << >>

C17_FailedLaunchStaysOnLibrary ==
    /\ (launch.called /\ launch.notice # "" /\ ~HasBit(g_LastInputMask, "start")) =>
          g_AppState = "GameList"
    /\ (launch.called /\ g_AppState = "Running") => launch.notice = ""

\* The position of event e among the events of the latest launch, 0 if it
\* did not happen.
EventAt(e) ==
    IF \E i \in 1..Len(launch.events) : launch.events[i] = e
    THEN CHOOSE i \in 1..Len(launch.events) : launch.events[i] = e
    ELSE 0

\* Event b happened only after event a.
Precedes(a, b) == EventAt(b) # 0 => (EventAt(a) # 0 /\ EventAt(a) < EventAt(b))

\* Load returned Success in the latest launch.
LoadSucceeded ==
    /\ EventAt("Load") # 0
    /\ launch.world.engine.throwAt # 4
    /\ launch.world.engine.load = "Success"

\* C18: in every launch each engine call is made at most once and in the
\* order Initialize, SetContentProvider and SetFilesystem, Load, Run; Run
\* and the switch to the Running screen happen only after Load returned
\* Success, the switch before Run; the tick ends on the Running screen
\* exactly when the switch happened; and a Load result other than Success is
\* followed by no Run and no switch.
C18_EngineCallOrder ==
    /\ Cardinality(Range(launch.events)) = Len(launch.events)
    /\ Precedes("Initialize", "SetContentProvider")
    /\ Precedes("Initialize", "SetFilesystem")
    /\ Precedes("SetContentProvider", "Load")
    /\ Precedes("SetFilesystem", "Load")
    /\ Precedes("Load", "Run")
    /\ Precedes("Load", "g_AppState = Running")
    /\ Precedes("g_AppState = Running", "Run")
    /\ EventAt("Run") # 0 => LoadSucceeded
    /\ EventAt("g_AppState = Running") # 0 => LoadSucceeded
    /\ launch.called => (g_AppState = "Running" <=> EventAt("g_AppState = Running") # 0)
    /\ (EventAt("Load") # 0 /\ launch.world.engine.throwAt # 4
            /\ launch.world.engine.load # "Success") =>
          /\ EventAt("Run") = 0
          /\ g_AppState # "Running"

\* A launch has gone through: Load returned Success, the screen switched to
\* Running and Run was called.
C18_Witness ==
    /\ launch.called
    /\ LoadSucceeded
    /\ EventAt("Run") = Len(launch.events)
    /\ g_AppState = "Running"

\* C19: Confirm is applied before the moves of the same tick: a tick that
\* starts on the Library screen and calls StartGame passes the index that was
\* selected when the tick began, and a tick that turns edit mode on leaves the
\* tab and the row as they were when it began.
C19_ConfirmBeforeMove ==
    [][ /\ (g_AppState = "GameList" /\ launch'.called) => startArg' = g_SelectedGameIndex
        /\ (g_AppState = "Settings" /\ ~g_IsEditingSetting /\ g_IsEditingSetting'
                /\ ~HasBit(g_LastInputMask', "lb") /\ ~HasBit(g_LastInputMask', "rb")) =>
              g_SelectedSettingIndex' = g_SelectedSettingIndex ]_vars

\* C20: a tick that starts in edit mode on the Settings screen and executes
\* with Confirm or Back down ends outside edit mode on the Settings screen,
\* with the tab, the row and all five setting values as they were.
C20_EditExitKeepsValues ==
    [][ (/\ g_IsEditingSetting
         /\ g_AppState = "Settings"
         /\ execute'
         /\ (HasBit(g_LastInputMask', "a") \/ HasBit(g_LastInputMask', "b"))) =>
            /\ ~g_IsEditingSetting'
            /\ g_AppState' = "Settings"
            /\ g_CurrentTab' = g_CurrentTab
            /\ g_SelectedSettingIndex' = g_SelectedSettingIndex
            /\ values' = values ]_vars

\* The tick leaves the Settings screen: it starts there outside edit mode
\* and executes with Back or Menu down.
LeavesSettings ==
    /\ g_AppState = "Settings"
    /\ ~g_IsEditingSetting
    /\ execute'
    /\ (HasBit(g_LastInputMask', "b") \/ HasBit(g_LastInputMask', "start"))

\* C21: a tick goes from the Settings screen to the Library screen exactly
\* when it leaves Settings with Back or Menu, and then its first
\* SaveSettings call is made with the values and paths the tick began with;
\* beyond that one call a tick saves at most once more, and only when
\* Confirm on the library path row (General row 2) appended a path; every
\* other tick saves nothing; the destruction of the window saves once.
C21_SaveOnLeaveOnly ==
    [][ LET n == Len(saveLog')
            onLeave == IF LeavesSettings THEN 1 ELSE 0
        IN IF ~alive'
           THEN n = 1
           ELSE /\ (g_AppState = "Settings" /\ g_AppState' = "GameList") <=> LeavesSettings
                /\ LeavesSettings =>
                      /\ n >= 1
                      /\ saveLog'[1].values = values
                      /\ saveLog'[1].paths = g_UserGamePaths
                /\ n \in {onLeave, onLeave + 1}
                /\ n = onLeave + 1 =>
                      /\ execute'
                      /\ HasBit(g_LastInputMask', "a")
                      /\ g_AppState = "Settings" /\ ~g_IsEditingSetting
                      /\ g_CurrentTab' = General
                      /\ g_SelectedSettingIndex' = 2
                      /\ Len(saveLog'[n].paths) >= 1 ]_vars

\* A value was changed in edit mode and the tick that left the Settings
\* screen afterwards saved once and wrote the file.
C21_Witness ==
    /\ g_AppState = "GameList"
    /\ execute
    /\ Len(saveLog) = 1
    /\ saveLog[1].written
    /\ values.language_index = 2
    /\ configFile.exists

\* C22: a tick that starts on the Settings screen outside edit mode and
\* executes with exactly one of TabNext and TabPrev down moves the tab one
\* place round the ring General, System, Graphics, Audio, Network (TabNext
\* forward, Network to General; TabPrev backward, General to Network), so
\* that TabPrev undoes TabNext and five TabNext ticks come back to the start,
\* and ends with row 0 selected.
C22_TabRing ==
    [][ (/\ g_AppState = "Settings"
         /\ ~g_IsEditingSetting
         /\ execute'
         /\ HasBit(g_LastInputMask', "rb") # HasBit(g_LastInputMask', "lb")) =>
            /\ g_CurrentTab' = IF HasBit(g_LastInputMask', "rb")
                                THEN (g_CurrentTab + 1) % NumTabs
                                ELSE (g_CurrentTab + NumTabs - 1) % NumTabs
            /\ g_SelectedSettingIndex' = 0 ]_vars

\* C23: at the step that takes the in-flight flag from true to false the
\* status string is "Done!" or "Error!", and a step of a background copy
\* task (one that changes the flag or the status string) leaves screen, tab,
\* row, edit mode and library index as they were.
C23_CopyTaskEndsWithTerminalStatus ==
    [][ /\ (g_IsInstalling /\ ~g_IsInstalling') => g_InstallStatus' \in {"Done!", "Error!"}
        /\ (g_IsInstalling' # g_IsInstalling \/ g_InstallStatus' # g_InstallStatus) =>
              /\ g_AppState' = g_AppState
              /\ g_CurrentTab' = g_CurrentTab
              /\ g_SelectedSettingIndex' = g_SelectedSettingIndex
              /\ g_IsEditingSetting' = g_IsEditingSetting
              /\ g_SelectedGameIndex' = g_SelectedGameIndex ]_vars

\* C24: Running is terminal for input.  A tick that starts on the Running
\* screen, whatever its mask and whether or not it fires, leaves the screen,
\* the tab, the row, the editing flag, the library index and every setting
\* value unchanged, and starts no launch, no save, no scan and no copy task.
C24_RunningIsTerminal ==
    [][ g_AppState = "Running" =>
          /\ g_AppState' = "Running"
          /\ g_CurrentTab' = g_CurrentTab
          /\ g_SelectedSettingIndex' = g_SelectedSettingIndex
          /\ g_IsEditingSetting' = g_IsEditingSetting
          /\ g_SelectedGameIndex' = g_SelectedGameIndex
          /\ values' = values
          /\ ~launch'.called
          /\ saveLog' = << >>
          /\ configFile' = configFile
          /\ scanned' = scanned
          /\ g_Games' = g_Games
          /\ g_UserGamePaths' = g_UserGamePaths
          /\ threads' = threads ]_vars

\* A firing tick with Confirm held that started on the Running screen: the
\* tick launched nothing, so Running was already the screen before it.
C24_Witness ==
    /\ g_AppState = "Running"
    /\ execute
    /\ HasBit(g_LastInputMask, "a")
    /\ ~launch.called

\* C25: after any scan no two entries of the game list are the same file
\* (same directory, stem and extension, that is, the same absolute path),
\* whatever the user search paths are, including a user path equal to or
\* inside the system path or a drive root.
C25_NoTitleListedTwice ==
    \A i, j \in 1..Len(g_Games) : g_Games[i] = g_Games[j] => i = j

\* The setting the switch of the edit branch binds to a row, "none" for a row
\* without one.
BoundSetting(row) ==
    CASE row = 0 -> "language_index"
      [] row = 1 -> "region_index"
      [] row = 4 -> "custom_rtc_enabled"
      [] row = 6 -> "use_multi_core"
      [] row = 7 -> "memory_layout_mode"
      [] OTHER -> "none"

\* C26: a tick changes a setting value only if it starts on the Settings
\* screen in edit mode and executes with MoveUp, MoveDown, TabPrev or TabNext
\* down, and then only the setting bound to the selected row changes; so
\* ticks on the Library screen, ticks in Settings outside edit mode and ticks
\* that do not execute leave the five values unchanged; and a tick that does
\* not execute leaves the screen, the tab, the row, the editing flag, the
\* library index, the values, the search paths and the game list unchanged.
C26_ValuesChangeOnlyByEditStep ==
    [][ /\ values' # values =>
              /\ g_AppState = "Settings"
              /\ g_IsEditingSetting
              /\ StepIntent
              /\ \A f \in DOMAIN values :
                    values'[f] # values[f] => f = BoundSetting(g_SelectedSettingIndex)
        /\ ~execute' =>
              /\ g_AppState' = g_AppState
              /\ g_CurrentTab' = g_CurrentTab
              /\ g_SelectedSettingIndex' = g_SelectedSettingIndex
              /\ g_IsEditingSetting' = g_IsEditingSetting
              /\ g_SelectedGameIndex' = g_SelectedGameIndex
              /\ values' = values
              /\ g_UserGamePaths' = g_UserGamePaths
              /\ g_Games' = g_Games ]_vars

\* In edit mode on row 1, MoveUp stepped the region off its default and is
\* still held at a poll before the armed time: the tick did not execute, the
\* region kept the one step and the four other values still have their
\* defaults.
C26_Witness ==
    /\ g_AppState = "Settings"
    /\ g_IsEditingSetting
    /\ g_SelectedSettingIndex = 1
    /\ ~execute
    /\ HasBit(g_LastInputMask, "up")
    /\ values = [DefaultValues EXCEPT !.region_index = 2]

====
